---- MODULE Spec2Model ----
(***************************************************************************)
(* Model of src/lib/value.ts: class Value, an observable, settable value.  *)
(*                                                                         *)
(* A Value holds lastValue, an optional valueForwarder (called by set) and *)
(* an optional valueRequestor (called by get).  set and get return         *)
(* promises: the callback is invoked synchronously inside the call and the *)
(* rest of the method runs later as a promise reaction (a microtask).      *)
(* The model keeps the microtask queue explicit, so that calls issued by   *)
(* the surrounding program interleave with pending reactions exactly at    *)
(* the points where JavaScript allows it.                                  *)
(***************************************************************************)
EXTENDS Integers, Sequences, FiniteSets, TLC

\* ------------------------------------------------------------------------
\* Bounds of the model
\* ------------------------------------------------------------------------
MaxCalls == 2       \* calls of set, get and notifyOfExternalUpdate made by
                    \* the surrounding program
MaxObservers == 2   \* listeners registered for 'update' (SpecObservers)

\* ------------------------------------------------------------------------
\* JavaScript values
\* ------------------------------------------------------------------------
Undefined == "undefined"
Null == "null"
NaN == "NaN"
Defined == {"off", "on", NaN}
Values == {Undefined, Null} \cup Defined
Errors == {"Error"}   \* what a callback throws or rejects with
NoValue == "-"      \* a field of a record of the model that holds nothing
NoError == "-"

\* v === w (line 73 uses its negation): NaN is not equal to itself.
StrictEquals(v, w) == v = w /\ v # NaN

IsAbsent(v) == v = Undefined \/ v = Null

VARIABLES
    lastValue,       \* this.lastValue
    valueForwarder,  \* Null, or "function"
    valueRequestor,  \* Null, or "function"
    listeners,       \* the listeners of 'update', in registration order
    calls,           \* the calls of set and get made so far, by call id
    microtasks,      \* ids of the calls whose reaction is queued (FIFO)
    events,          \* the 'update' events emitted so far
    trace,           \* history: the steps taken on this Value, in order
    emitting,        \* the emit('update', ...) calls in progress (a stack)
    backing,         \* SpecStore: what the backing system held at first
    delivered,       \* history: the invocations of listeners, in order
    initialValue,    \* history: the constructor's first argument
    notifies         \* history: number of direct notifyOfExternalUpdate calls

vars == <<lastValue, valueForwarder, valueRequestor, listeners, calls,
          microtasks, events, trace, emitting, backing, delivered,
          initialValue, notifies>>

Observers == 1..MaxObservers

\* ------------------------------------------------------------------------
\* constructor (lines 32-39)
\* ------------------------------------------------------------------------
Init ==
    /\ initialValue \in Values
    /\ lastValue = initialValue
    /\ valueForwarder \in {Null, "function"}
    /\ valueRequestor \in {Null, "function"}
    /\ listeners = <<>>
    /\ calls = <<>>
    /\ microtasks = <<>>
    /\ events = <<>>
    /\ trace = <<>>
    /\ emitting = <<>>
    /\ backing = NoValue
    /\ delivered = <<>>
    /\ notifies = 0

\* ------------------------------------------------------------------------
\* notifyOfExternalUpdate (lines 72-77)
\* ------------------------------------------------------------------------
\* Mutants of the condition of line 73: the comparison with lastValue is
\* missing; the test for null is missing.
ShouldNotify_NoCompare(value, last) ==
    /\ value # Undefined
    /\ value # Null

ShouldNotify_NoNullTest(value, last) ==
    /\ value # Undefined
    /\ ~StrictEquals(value, last)

\* The condition of line 73.
ShouldNotify(value, last) ==
    /\ value # Undefined
    /\ value # Null
    /\ ~StrictEquals(value, last)

\* Mutant of line 74: the assignment is missing.
StoredValue_NotStored(value, last) == last

\* Mutant of line 74: the assignment is moved out of the if, so a value is
\* stored also when no change event is emitted.
StoredValue_Unconditional(value, last) == value

\* Line 74: the value stored in this.lastValue when the method returns.
StoredValue(value, last) ==
    IF ShouldNotify(value, last) THEN value ELSE last

\* Line 75: emit('update', value) calls every listener, in order, with value.
\* Listeners are taken to return normally; the event records the value and
\* the listeners registered when it was emitted.
Emitted(value, last, evs, ls) ==
    IF ShouldNotify(value, last)
    THEN Append(evs, [value |-> value, to |-> ls])
    ELSE evs

\* Mutant of emit: the first registered listener is passed over.
Emitting_SkipFirst(value, last, stack, ls, ev) ==
    IF ShouldNotify(value, last) /\ ls # <<>>
    THEN Append(stack, [value |-> value, ev |-> ev, todo |-> Tail(ls)])
    ELSE stack

\* Line 75, inside emit: EventEmitter invokes a copy of the listener list,
\* one listener after the other, before emit returns.  The frame of an emit
\* in progress holds the value, the index of its event and the listeners
\* not invoked yet.
Emitting(value, last, stack, ls, ev) ==
    IF ShouldNotify(value, last) /\ ls # <<>>
    THEN Append(stack, [value |-> value, ev |-> ev, todo |-> ls])
    ELSE stack

\* The whole method, as its effect on lastValue, on the emitted events and
\* on the notifications in progress.
notifyOfExternalUpdate(value) ==
    /\ lastValue' = StoredValue(value, lastValue)
    /\ events' = Emitted(value, lastValue, events, listeners)
    /\ emitting' = Emitting(value, lastValue, emitting, listeners,
                            Len(events) + 1)

\* The innermost emit in progress.
Top == emitting[Len(emitting)]

\* Mutant of notifyOfExternalUpdate: it awaits between the store and the
\* listeners, so reactions and settlements run while an emit is in progress.
Idle_Suspended == TRUE

\* notifyOfExternalUpdate has no suspension point (lines 72-77): while an
\* emit is in progress nothing runs but the listeners.  No promise reaction
\* runs and no promise is settled before the call stack is empty.
Idle == emitting = <<>>

\* A listener of the innermost emit has been invoked and has not returned.
ListenerRunning ==
    /\ emitting # <<>>
    /\ Len(Top.todo) < Len(events[Top.ev].to)

\* Code of the surrounding program is running and may call the Value: no
\* emit is in progress, or a listener is running.
CanCall == Idle \/ ListenerRunning

\* One entry of the history: the step kind, the call it belongs to (0: none),
\* the value it carried, lastValue before and after, the number of events
\* it emitted, the number of events emitted up to and including it, the
\* number of emits in progress when it was taken, and whether a listener was
\* running then.
Step(kind, id, v) ==
    [kind |-> kind, id |-> id, v |-> v, before |-> lastValue,
     after |-> lastValue', emits |-> Len(events') - Len(events),
     nev |-> Len(events'), during |-> Len(emitting),
     inListener |-> ListenerRunning]

\* A direct call of notifyOfExternalUpdate by the device code.
Notify(value) ==
    /\ CanCall
    /\ Len(calls) + notifies < MaxCalls
    /\ notifies' = notifies + 1
    /\ notifyOfExternalUpdate(value)
    /\ trace' = Append(trace, Step("notify", 0, value))
    /\ UNCHANGED <<valueForwarder, valueRequestor, backing, delivered,
                   listeners, calls, microtasks, initialValue>>

\* on('update', listener), inherited from EventEmitter (line 18).  Each
\* listener registers once.
On(o) ==
    /\ CanCall
    /\ \A i \in 1..Len(listeners) : listeners[i] # o
    /\ listeners' = Append(listeners, o)
    /\ UNCHANGED <<lastValue, emitting, backing, delivered, valueForwarder,
                   valueRequestor, calls, microtasks, events, trace,
                   initialValue, notifies>>

\* Inside emit: the next listener of the innermost emit is invoked with the
\* value.  The history keeps the listener, the value, the event, lastValue
\* and the number of events at the time of the invocation.
Deliver ==
    /\ emitting # <<>>
    /\ Top.todo # <<>>
    /\ delivered' = Append(delivered,
                           [to |-> Head(Top.todo), value |-> Top.value,
                            ev |-> Top.ev, last |-> lastValue,
                            nev |-> Len(events)])
    /\ emitting' = [emitting EXCEPT ![Len(emitting)].todo = Tail(@)]
    /\ UNCHANGED <<lastValue, valueForwarder, valueRequestor, listeners,
                   calls, microtasks, events, trace, backing, initialValue,
                   notifies>>

\* The last listener of the innermost emit has returned: emit returns, and
\* with it notifyOfExternalUpdate (line 77).
EmitReturns ==
    /\ emitting # <<>>
    /\ Top.todo = <<>>
    /\ emitting' = SubSeq(emitting, 1, Len(emitting) - 1)
    /\ UNCHANGED <<lastValue, valueForwarder, valueRequestor, listeners,
                   calls, microtasks, events, trace, backing, delivered,
                   initialValue, notifies>>

\* ------------------------------------------------------------------------
\* Calls of set and get
\* ------------------------------------------------------------------------
\* The record of one call.  st is the state of the promise the call returned:
\* "awaiting" (the callback's promise is pending), "queued" (the reaction
\* is in the microtask queue), "fulfilled", "rejected", or "thrown" (the
\* call raised synchronously and returned no promise).  cb is what the
\* callback did: "none" (not called), "returned" (a plain value),
\* "pending", "resolved", "failed" (its promise), or "threw".
\* cbCalls counts the invocations of the callback, cbArg is the argument
\* it was invoked with, cbErr the error it raised; res is the value the
\* requestor produced, ret the value the promise of get is fulfilled with,
\* err the error the call failed with.
NewCall(op, arg) ==
    [op |-> op, arg |-> arg, st |-> "queued", cb |-> "none",
     cbArg |-> NoValue, cbCalls |-> 0, cbErr |-> NoError,
     res |-> NoValue, ret |-> NoValue, err |-> NoError]

\* Mutant of line 48: the deduplication of line 73 is applied before
\* forwarding, so an absent or unchanged value is not forwarded.
SetCalled_SkipUnchanged(value) ==
    IF valueForwarder = Null \/ ~ShouldNotify(value, lastValue)
    THEN {NewCall("set", value)}
    ELSE LET c == [NewCall("set", value) EXCEPT !.cbArg = value, !.cbCalls = 1]
         IN  {[c EXCEPT !.cb = "returned"],
              [c EXCEPT !.cb = "pending", !.st = "awaiting"]}
             \cup {[c EXCEPT !.cb = "threw", !.st = "thrown",
                             !.cbErr = e, !.err = e] : e \in Errors}

\* Line 48: this.valueForwarder ? this.valueForwarder(value) : undefined,
\* then lines 47 and 49: Promise.resolve(...).then(...).  The forwarder may
\* return a plain value, return a promise, or throw.
SetCalled(value) ==
    IF valueForwarder = Null
    THEN {NewCall("set", value)}
    ELSE LET c == [NewCall("set", value) EXCEPT !.cbArg = value, !.cbCalls = 1]
         IN  {[c EXCEPT !.cb = "returned"],
              [c EXCEPT !.cb = "pending", !.st = "awaiting"]}
             \cup {[c EXCEPT !.cb = "threw", !.st = "thrown",
                             !.cbErr = e, !.err = e] : e \in Errors}

\* Mutant of set: the value is committed when set is called, before the
\* forwarder has completed.
set_Optimistic(value) ==
    /\ CanCall
    /\ Len(calls) + notifies < MaxCalls
    /\ \E c \in SetCalled(value) :
          /\ calls' = Append(calls, c)
          /\ microtasks' = IF c.st = "queued"
                           THEN Append(microtasks, Len(calls) + 1)
                           ELSE microtasks
    /\ notifyOfExternalUpdate(value)
    /\ trace' = Append(trace, Step("set", Len(calls) + 1, value))
    /\ UNCHANGED <<valueForwarder, valueRequestor, backing, delivered,
                   listeners, initialValue, notifies>>

\* set (lines 46-50), up to the return of the promise.
set(value) ==
    /\ CanCall
    /\ Len(calls) + notifies < MaxCalls
    /\ \E c \in SetCalled(value) :
          /\ calls' = Append(calls, c)
          /\ microtasks' = IF c.st = "queued"
                           THEN Append(microtasks, Len(calls) + 1)
                           ELSE microtasks
    /\ UNCHANGED <<lastValue, events, emitting>>
    /\ trace' = Append(trace, Step("set", Len(calls) + 1, value))
    /\ UNCHANGED <<valueForwarder, valueRequestor, backing, delivered,
                   listeners, initialValue, notifies>>

\* Mutant of the fulfilment of the forwarder's promise: the reaction of
\* line 49 is not attached, so nothing continues the call.
ForwarderResolves_Lost(id) ==
    /\ Idle
    /\ calls[id].op = "set"
    /\ calls[id].cb = "pending"
    /\ calls' = [calls EXCEPT ![id].cb = "resolved", ![id].st = "queued"]
    /\ UNCHANGED <<lastValue, emitting, backing, delivered, valueForwarder,
                   valueRequestor, listeners, events, initialValue, notifies,
                   microtasks>>
    /\ trace' = Append(trace, Step("resolve", id, calls[id].arg))

\* The promise returned by the forwarder is fulfilled: the reaction of
\* line 49 is queued.
ForwarderResolves(id) ==
    /\ Idle
    /\ calls[id].op = "set"
    /\ calls[id].cb = "pending"
    /\ calls' = [calls EXCEPT ![id].cb = "resolved", ![id].st = "queued"]
    /\ microtasks' = Append(microtasks, id)
    /\ UNCHANGED <<lastValue, emitting, backing, delivered, valueForwarder,
                   valueRequestor, listeners, events, initialValue, notifies>>
    /\ trace' = Append(trace, Step("resolve", id, calls[id].arg))

\* Mutant of the rejection of set: the reaction is also registered as the
\* rejection handler, then(f, f), so a failed forward still commits.
ForwarderRejects_Commit(id, e) ==
    /\ Idle
    /\ calls[id].op = "set"
    /\ calls[id].cb = "pending"
    /\ calls' = [calls EXCEPT ![id].cb = "failed", ![id].cbErr = e,
                              ![id].st = "rejected", ![id].err = e]
    /\ notifyOfExternalUpdate(calls[id].arg)
    /\ UNCHANGED microtasks
    /\ trace' = Append(trace, Step("fail", id, calls[id].arg))
    /\ UNCHANGED <<valueForwarder, valueRequestor, backing, delivered,
                   listeners, initialValue, notifies>>

\* The promise returned by the forwarder is rejected with e: then() has no
\* rejection handler (line 49), so the promise of set is rejected with e.
ForwarderRejects(id, e) ==
    /\ Idle
    /\ calls[id].op = "set"
    /\ calls[id].cb = "pending"
    /\ calls' = [calls EXCEPT ![id].cb = "failed", ![id].cbErr = e,
                              ![id].st = "rejected", ![id].err = e]
    /\ UNCHANGED <<lastValue, events, emitting, microtasks>>
    /\ trace' = Append(trace, Step("fail", id, calls[id].arg))
    /\ UNCHANGED <<valueForwarder, valueRequestor, backing, delivered,
                   listeners, initialValue, notifies>>

\* Mutant of the reaction of set: the promise is fulfilled without the
\* Update, then(() => undefined).
setThen_NoUpdate(id) ==
    /\ UNCHANGED <<lastValue, events, emitting>>
    /\ calls' = [calls EXCEPT ![id].st = "fulfilled"]
    /\ trace' = Append(trace, Step("then", id, calls[id].arg))

\* The reaction of line 49: () => this.notifyOfExternalUpdate(value).
setThen(id) ==
    /\ notifyOfExternalUpdate(calls[id].arg)
    /\ calls' = [calls EXCEPT ![id].st = "fulfilled"]
    /\ trace' = Append(trace, Step("then", id, calls[id].arg))

\* Mutant of get: without a requestor the call still goes through the
\* reaction, as if a requestor had returned undefined.
GetCalled_ThroughReaction ==
    IF valueRequestor = Null
    THEN {[NewCall("get", NoValue) EXCEPT !.res = Undefined]}
    ELSE LET c == [NewCall("get", NoValue) EXCEPT !.cbCalls = 1]
         IN  {[c EXCEPT !.cb = "returned", !.res = v] : v \in Values}
             \cup {[c EXCEPT !.cb = "pending", !.st = "awaiting"]}
             \cup {[c EXCEPT !.cb = "threw", !.st = "thrown",
                             !.cbErr = e, !.err = e] : e \in Errors}

\* Lines 58 and 59: this.valueRequestor(), called when it is configured.  It
\* may return a plain value, return a promise, or throw.
\* Line 64: without a requestor, Promise.resolve(this.lastValue).
GetCalled ==
    IF valueRequestor = Null
    THEN {[NewCall("get", NoValue) EXCEPT !.st = "fulfilled", !.ret = lastValue]}
    ELSE LET c == [NewCall("get", NoValue) EXCEPT !.cbCalls = 1]
         IN  {[c EXCEPT !.cb = "returned", !.res = v] : v \in Values}
             \cup {[c EXCEPT !.cb = "pending", !.st = "awaiting"]}
             \cup {[c EXCEPT !.cb = "threw", !.st = "thrown",
                             !.cbErr = e, !.err = e] : e \in Errors}

\* get (lines 57-65), up to the return of the promise.
get ==
    /\ CanCall
    /\ Len(calls) + notifies < MaxCalls
    /\ \E c \in GetCalled :
          /\ calls' = Append(calls, c)
          /\ microtasks' = IF c.st = "queued"
                           THEN Append(microtasks, Len(calls) + 1)
                           ELSE microtasks
    /\ UNCHANGED <<lastValue, events, emitting>>
    /\ trace' = Append(trace, Step("get", Len(calls) + 1, NoValue))
    /\ UNCHANGED <<valueForwarder, valueRequestor, backing, delivered,
                   listeners, initialValue, notifies>>

\* The promise returned by the requestor is fulfilled with newValue: the
\* reaction of lines 59-62 is queued.
RequestorResolves(id, newValue) ==
    /\ Idle
    /\ calls[id].op = "get"
    /\ calls[id].cb = "pending"
    /\ calls' = [calls EXCEPT ![id].cb = "resolved", ![id].st = "queued",
                              ![id].res = newValue]
    /\ microtasks' = Append(microtasks, id)
    /\ UNCHANGED <<lastValue, emitting, backing, delivered, valueForwarder,
                   valueRequestor, listeners, events, initialValue, notifies>>
    /\ trace' = Append(trace, Step("resolve", id, newValue))

\* Mutant of the rejection of get: the error is caught and the stored value
\* returned instead, catch(() => this.lastValue).
RequestorRejects_Swallow(id, e) ==
    /\ Idle
    /\ calls[id].op = "get"
    /\ calls[id].cb = "pending"
    /\ calls' = [calls EXCEPT ![id].cb = "failed", ![id].cbErr = e,
                              ![id].st = "fulfilled", ![id].ret = lastValue]
    /\ UNCHANGED <<lastValue, events, emitting, microtasks>>
    /\ trace' = Append(trace, Step("fail", id, NoValue))
    /\ UNCHANGED <<valueForwarder, valueRequestor, backing, delivered,
                   listeners, initialValue, notifies>>

\* The promise returned by the requestor is rejected with e: then() has no
\* rejection handler (line 59), so the promise of get is rejected with e.
RequestorRejects(id, e) ==
    /\ Idle
    /\ calls[id].op = "get"
    /\ calls[id].cb = "pending"
    /\ calls' = [calls EXCEPT ![id].cb = "failed", ![id].cbErr = e,
                              ![id].st = "rejected", ![id].err = e]
    /\ UNCHANGED <<lastValue, events, emitting, microtasks>>
    /\ trace' = Append(trace, Step("fail", id, NoValue))
    /\ UNCHANGED <<valueForwarder, valueRequestor, backing, delivered,
                   listeners, initialValue, notifies>>

\* Line 61: the value the promise of get is fulfilled with.
GetResult(newValue, last) == newValue

\* Mutant of the reaction of get: line 60 is missing.
getThen_NoUpdate(id) ==
    /\ UNCHANGED <<lastValue, events, emitting>>
    /\ calls' = [calls EXCEPT ![id].st = "fulfilled",
                              ![id].ret = GetResult(calls[id].res, lastValue')]
    /\ trace' = Append(trace, Step("then", id, calls[id].res))

\* The reaction of lines 59-62: notifyOfExternalUpdate(newValue), then
\* return newValue.
getThen(id) ==
    /\ notifyOfExternalUpdate(calls[id].res)
    /\ calls' = [calls EXCEPT ![id].st = "fulfilled",
                              ![id].ret = GetResult(calls[id].res, lastValue')]
    /\ trace' = Append(trace, Step("then", id, calls[id].res))

\* Mutant of the order of the reactions: the newest queued reaction runs
\* first.
RunMicrotask_NewestFirst ==
    /\ Idle
    /\ microtasks # <<>>
    /\ microtasks' = SubSeq(microtasks, 1, Len(microtasks) - 1)
    /\ \/ calls[microtasks[Len(microtasks)]].op = "set"
          /\ setThen(microtasks[Len(microtasks)])
       \/ calls[microtasks[Len(microtasks)]].op = "get"
          /\ getThen(microtasks[Len(microtasks)])
    /\ UNCHANGED <<valueForwarder, valueRequestor, backing, delivered,
                   listeners, initialValue, notifies>>

\* The JavaScript engine runs the oldest queued reaction to completion.
RunMicrotask ==
    /\ Idle
    /\ microtasks # <<>>
    /\ microtasks' = Tail(microtasks)
    /\ \/ calls[Head(microtasks)].op = "set" /\ setThen(Head(microtasks))
       \/ calls[Head(microtasks)].op = "get" /\ getThen(Head(microtasks))
    /\ UNCHANGED <<valueForwarder, valueRequestor, backing, delivered,
                   listeners, initialValue, notifies>>

CallIds == 1..Len(calls)

\* The Value and its callbacks.  Events are recorded as they are emitted,
\* with or without listeners.
Next ==
    \/ \E value \in Values : set(value)
    \/ get
    \/ \E id \in CallIds : ForwarderResolves(id)
    \/ \E id \in CallIds, e \in Errors : ForwarderRejects(id, e)
    \/ \E id \in CallIds, newValue \in Values : RequestorResolves(id, newValue)
    \/ \E id \in CallIds, e \in Errors : RequestorRejects(id, e)
    \/ RunMicrotask
    \/ \E value \in Values : Notify(value)

Spec == Init /\ [][Next]_vars

\* The same, with listeners registering for 'update' at any time.
NextObservers ==
    \/ Next
    \/ \E o \in Observers : On(o)
    \/ Deliver
    \/ EmitReturns

SpecObservers == Init /\ [][NextObservers]_vars

\* The promise a forwarder or requestor returned for call id is settled.
Settles(id) ==
    /\ id \in CallIds
    /\ \/ ForwarderResolves(id)
       \/ \E e \in Errors : ForwarderRejects(id, e)
       \/ \E newValue \in Values : RequestorResolves(id, newValue)
       \/ \E e \in Errors : RequestorRejects(id, e)

\* The Value under fair scheduling: the engine runs every queued reaction,
\* and every promise a forwarder or requestor returned is settled.
SpecFair ==
    /\ Init
    /\ [][Next]_vars
    /\ WF_vars(RunMicrotask)
    /\ \A id \in 1..MaxCalls : WF_vars(Settles(id))

\* ------------------------------------------------------------------------
\* A Value in front of a backing store, used sequentially
\* ------------------------------------------------------------------------
\* The constructor is given a forwarder and a requestor; the store holds
\* any value at first, and so does initialValue.
InitStore ==
    /\ initialValue \in Values
    /\ lastValue = initialValue
    /\ valueForwarder = "function"
    /\ valueRequestor = "function"
    /\ backing \in Values
    /\ listeners = <<>>
    /\ calls = <<>>
    /\ microtasks = <<>>
    /\ events = <<>>
    /\ trace = <<>>
    /\ emitting = <<>>
    /\ delivered = <<>>
    /\ notifies = 0

\* The calls of set whose forwarder has succeeded: it has written the value
\* of the call into the store.
Written ==
    {id \in CallIds : calls[id].op = "set"
                         /\ calls[id].cb \in {"returned", "resolved"}}

\* What the store holds: the value written last, or what it held at first.
Store ==
    IF Written = {} THEN backing
    ELSE calls[CHOOSE id \in Written : \A jd \in Written : jd <= id].arg

\* No call is in flight: every promise returned by set or get is settled.
AllDone ==
    /\ microtasks = <<>>
    /\ \A id \in CallIds : calls[id].st \in {"fulfilled", "rejected", "thrown"}

\* The requestor reads the store: whatever it returns at once is what the
\* store holds.
ReadsStore(c) == c.cb = "returned" => c.res = Store

\* Calls are made one after the other, only non-empty values are set, the
\* forwarder writes the store and the requestor reads it; nothing else
\* changes the store.
NextStore ==
    \/ \E value \in Defined : AllDone /\ set(value)
    \/ AllDone /\ get /\ ReadsStore(calls'[Len(calls')])
    \/ \E id \in CallIds : ForwarderResolves(id)
    \/ \E id \in CallIds, e \in Errors : ForwarderRejects(id, e)
    \/ \E id \in CallIds : RequestorResolves(id, Store)
    \/ \E id \in CallIds, e \in Errors : RequestorRejects(id, e)
    \/ RunMicrotask

SpecStore == InitStore /\ [][NextStore]_vars

\* ------------------------------------------------------------------------
\* Reading the history
\* ------------------------------------------------------------------------
Steps == 1..Len(trace)

\* The steps in which notifyOfExternalUpdate ran: the reactions of set and
\* get, and the direct calls.
UpdateSteps == {i \in Steps : trace[i].kind \in {"then", "notify"}}

\* The step in which call id was made, the steps in which its reaction ran,
\* and the steps in which its promise was rejected.
CallStep(id) == CHOOSE i \in Steps : trace[i].id = id /\ trace[i].kind \in {"set", "get"}
ThenSteps(id) == {i \in Steps : trace[i].id = id /\ trace[i].kind = "then"}
FailSteps(id) == {i \in Steps : trace[i].id = id /\ trace[i].kind = "fail"}
StepsOf(id) == {i \in Steps : trace[i].id = id}

\* The comparison of line 73, v !== w.
Differs(v, w) == ~StrictEquals(v, w)

\* ------------------------------------------------------------------------
\* Claims
\* ------------------------------------------------------------------------

\* C1: every Update step (the reaction of set, the reaction of get with a
\* requestor, a direct notifyOfExternalUpdate) with candidate v emits a
\* change event if and only if v is neither undefined nor null and v differs
\* (!==) from the lastValue held when the step runs.
C1_NotifyIffPresentAndChanged ==
    \A i \in UpdateSteps :
        (trace[i].emits > 0)
            <=> (~IsAbsent(trace[i].v) /\ Differs(trace[i].v, trace[i].before))

\* An Update from set that emitted, one from get that did not although its
\* candidate was present, and a direct one with an absent candidate.
C1_Witness ==
    \E i, j \in UpdateSteps :
        /\ trace[i].kind = "then" /\ calls[trace[i].id].op = "set"
        /\ trace[i].emits = 1
        /\ trace[j].kind = "then" /\ calls[trace[j].id].op = "get"
        /\ ~IsAbsent(trace[j].v) /\ trace[j].emits = 0

\* The calls whose callback failed, and the step in which the call failed:
\* the call itself when the callback threw, the rejection otherwise.
FailedCalls(op) ==
    {id \in CallIds : calls[id].op = op /\ calls[id].cb \in {"failed", "threw"}}
FailureStep(id) ==
    IF calls[id].cb = "threw" THEN CallStep(id)
    ELSE CHOOSE i \in FailSteps(id) : TRUE

\* The call failed with the error its callback raised.
FailsWithCallbackError(id) ==
    /\ calls[id].st \in {"rejected", "thrown"}
    /\ calls[id].cbErr \in Errors
    /\ calls[id].err = calls[id].cbErr

\* No step of call id changed lastValue or emitted an event, and its
\* reaction never ran.
NoEffect(id) ==
    /\ ThenSteps(id) = {}
    /\ \A i \in StepsOf(id) :
          trace[i].after = trace[i].before /\ trace[i].emits = 0

\* C2, as claimed: when the forwarder fails during set, set fails with the
\* forwarder's error, lastValue after the failure is what it was before set
\* was invoked, and that set emits no change event.
C2_Original ==
    \A id \in FailedCalls("set") :
        /\ FailsWithCallbackError(id)
        /\ trace[FailureStep(id)].after = trace[CallStep(id)].before
        /\ \A i \in StepsOf(id) : trace[i].emits = 0

\* C2, amended: when the forwarder fails during set, set fails with the
\* forwarder's error and that set call neither changes lastValue nor emits
\* a change event; lastValue after the failure is what it was before set was
\* invoked unless the Update of another call changed it in between.
C2_FailedSetHasNoEffect ==
    \A id \in FailedCalls("set") :
        /\ FailsWithCallbackError(id)
        /\ NoEffect(id)
        /\ (\A i \in CallStep(id)..FailureStep(id) :
                trace[i].after = trace[i].before)
              => trace[FailureStep(id)].after = trace[CallStep(id)].before

\* The forwarder's promise was rejected for a set whose value is present
\* and differs from lastValue: committed, it would have been emitted.
C2_Witness ==
    \E id \in FailedCalls("set") :
        /\ calls[id].cb = "failed"
        /\ ~IsAbsent(calls[id].arg)
        /\ Differs(calls[id].arg, lastValue)

\* C3: when the requestor fails during get (it throws, or its promise is
\* rejected), get fails with the requestor's error, and that get call
\* neither changes lastValue nor emits a change event.
C3_FailedGetHasNoEffect ==
    \A id \in FailedCalls("get") :
        /\ FailsWithCallbackError(id)
        /\ NoEffect(id)

\* One get failed by rejection and another because the requestor threw.
C3_Witness ==
    \E id, jd \in FailedCalls("get") :
        /\ calls[id].cb = "failed" /\ calls[id].st = "rejected"
        /\ calls[jd].cb = "threw" /\ calls[jd].st = "thrown"

\* C4: on a Value with a forwarder, set(z) invokes the forwarder with z, and
\* lastValue becomes z (with its change event) only in the reaction that
\* runs after the forwarder has completed successfully: neither the call
\* itself nor any step taken while the forwarder is pending or after it has
\* failed commits z.
C4_ForwardBeforeCommit ==
    \A id \in CallIds :
        (calls[id].op = "set" /\ valueForwarder # Null) =>
            /\ calls[id].cbCalls = 1
            /\ calls[id].cbArg = calls[id].arg
            /\ trace[CallStep(id)].after = trace[CallStep(id)].before
            /\ trace[CallStep(id)].emits = 0
            /\ calls[id].cb \in {"pending", "failed", "threw"} => NoEffect(id)
            /\ \A i \in ThenSteps(id) :
                  /\ calls[id].cb \in {"returned", "resolved"}
                  /\ i > CallStep(id)
                  /\ trace[i].v = calls[id].arg
                  /\ (~IsAbsent(trace[i].v) /\ Differs(trace[i].v, trace[i].before))
                        => (trace[i].after = trace[i].v /\ trace[i].emits = 1)

\* One set(z) with z different from lastValue has committed after its
\* forwarder's promise was fulfilled; another is still waiting for its
\* forwarder, with a value that differs from lastValue.
C4_Witness ==
    \E id, jd \in CallIds :
        /\ calls[id].op = "set" /\ calls[id].cb = "resolved"
        /\ \E i \in ThenSteps(id) : trace[i].emits = 1
        /\ calls[jd].op = "set" /\ calls[jd].cb = "pending"
        /\ ~IsAbsent(calls[jd].arg) /\ Differs(calls[jd].arg, lastValue)

\* The steps in which the reaction of a get ran.
GetThenSteps ==
    {i \in Steps : trace[i].kind = "then" /\ calls[trace[i].id].op = "get"}

\* What C5 promises of the reaction at step i: get returns y, lastValue
\* becomes y, and the reaction emits exactly one change event, carrying y.
ReadReflectsPull(i) ==
    /\ calls[trace[i].id].ret = trace[i].v
    /\ trace[i].after = trace[i].v
    /\ trace[i].emits = 1
    /\ events[trace[i].nev].value = trace[i].v

\* C5, as claimed: when the requestor returns y and y differs from lastValue
\* at the time the result is applied, get returns y, lastValue becomes y and
\* exactly one change event carrying y is emitted by that get.
C5_Original ==
    \A i \in GetThenSteps :
        Differs(trace[i].v, trace[i].before) => ReadReflectsPull(i)

\* C5, amended: the same, when y is neither undefined nor null.
C5_ReadReflectsPull ==
    \A i \in GetThenSteps :
        (~IsAbsent(trace[i].v) /\ Differs(trace[i].v, trace[i].before))
            => ReadReflectsPull(i)

\* The requestor's promise was fulfilled with a present y that differed from
\* lastValue when the reaction ran, after lastValue had moved away from the
\* initialValue.
C5_Witness ==
    \E i \in GetThenSteps :
        /\ calls[trace[i].id].cb = "resolved"
        /\ ~IsAbsent(trace[i].v)
        /\ Differs(trace[i].v, trace[i].before)
        /\ trace[i].before # initialValue

\* C6: every get that completes successfully returns lastValue as it is
\* right after get's Update step (as it is when get is called, when there is
\* no requestor), also when the requestor's result is undefined or null.
C6_GetReturnsCurrent ==
    \A id \in CallIds :
        (calls[id].op = "get" /\ calls[id].st = "fulfilled") =>
            IF calls[id].cb = "none"
            THEN calls[id].ret = trace[CallStep(id)].after
            ELSE \A i \in ThenSteps(id) : calls[id].ret = trace[i].after

\* A call of get was made.
GetIsCalled ==
    /\ Len(calls') = Len(calls) + 1
    /\ calls'[Len(calls')].op = "get"

\* C7: without a requestor, get returns lastValue and has no side effect:
\* the promise is fulfilled with lastValue at once, lastValue and the events
\* are unchanged, no callback is invoked, no reaction is queued and no
\* other call is touched.
C7_GetWithoutRequestor ==
    [][(GetIsCalled /\ valueRequestor = Null) =>
          /\ calls'[Len(calls')].st = "fulfilled"
          /\ calls'[Len(calls')].ret = lastValue
          /\ calls'[Len(calls')].cbCalls = 0
          /\ lastValue' = lastValue
          /\ events' = events
          /\ microtasks' = microtasks
          /\ SubSeq(calls', 1, Len(calls)) = calls]_vars

\* A get without requestor has returned a lastValue that a previous set had
\* changed, on a Value that has a forwarder.
C7_Witness ==
    \E id \in CallIds :
        /\ calls[id].op = "get" /\ calls[id].cb = "none"
        /\ valueRequestor = Null /\ valueForwarder # Null
        /\ calls[id].ret # initialValue
        /\ calls[id].ret = lastValue

\* C8: an Update with a candidate that is undefined, null or equal (===) to
\* the current lastValue leaves lastValue unchanged and emits nothing,
\* whichever way it was reached.
C8_UpdateNoOp ==
    \A i \in UpdateSteps :
        (IsAbsent(trace[i].v) \/ StrictEquals(trace[i].v, trace[i].before))
            => (trace[i].after = trace[i].before /\ trace[i].emits = 0)

\* A null candidate from get's requestor after an unchanged one from set.
C8_Witness ==
    \E i, j \in UpdateSteps :
        /\ i < j
        /\ trace[i].kind = "then" /\ calls[trace[i].id].op = "set"
        /\ StrictEquals(trace[i].v, trace[i].before)
        /\ trace[j].kind = "then" /\ calls[trace[j].id].op = "get"
        /\ trace[j].v = Null

\* On a Value without forwarder, set(x) was called twice in a row: steps i
\* and i+1 are the first call and its reaction, steps i+2 and i+3 the second
\* call, with the same x, and its reaction.
SetTwice(i) ==
    /\ valueForwarder = Null
    /\ i + 3 <= Len(trace)
    /\ trace[i].kind = "set" /\ trace[i + 2].kind = "set"
    /\ trace[i + 1].kind = "then" /\ trace[i + 1].id = trace[i].id
    /\ trace[i + 3].kind = "then" /\ trace[i + 3].id = trace[i + 2].id
    /\ trace[i + 2].v = trace[i].v

\* C9, as claimed: for every x, set(x) twice in a row without forwarder emits
\* exactly one change event, on the first call; the second call emits
\* nothing and leaves lastValue unchanged.
C9_Original ==
    \A i \in Steps :
        SetTwice(i) =>
            /\ trace[i + 1].emits = 1
            /\ trace[i + 3].emits = 0
            /\ trace[i + 3].after = trace[i + 3].before

\* C9, amended: the first call emits one change event if x is present and
\* differs from lastValue, and none otherwise; the second call emits nothing
\* and leaves lastValue unchanged, except for x = NaN, which differs from
\* itself and is emitted again.
C9_SetTwice ==
    \A i \in Steps :
        SetTwice(i) =>
            /\ trace[i + 1].emits =
                  IF ~IsAbsent(trace[i].v) /\ Differs(trace[i].v, trace[i + 1].before)
                  THEN 1 ELSE 0
            /\ trace[i].v # NaN =>
                  /\ trace[i + 3].emits = 0
                  /\ trace[i + 3].after = trace[i + 3].before
            /\ trace[i].v = NaN => trace[i + 3].emits = 1

\* set(x) twice in a row with a present x, not NaN, that differed from
\* lastValue before the first call.
C9_Witness ==
    \E i \in Steps :
        /\ SetTwice(i)
        /\ trace[i].v \in Defined \ {NaN}
        /\ trace[i].v # trace[i].before
        /\ Len(events) = 1

\* C10, as claimed: lastValue is never undefined or null, whatever the
\* initialValue.
C10_Original == ~IsAbsent(lastValue)

\* C10, amended: no operation stores an absent value.  lastValue is
\* undefined or null only if the constructor was given that initialValue and
\* no change has been committed since; with a present initialValue,
\* lastValue is never absent.
C10_NeverStoresAbsent ==
    /\ IsAbsent(lastValue) => (lastValue = initialValue /\ events = <<>>)
    /\ ~IsAbsent(initialValue) => ~IsAbsent(lastValue)

\* A null and an undefined candidate have reached Update on a Value that
\* was constructed with a present initialValue.
C10_Witness ==
    /\ ~IsAbsent(initialValue)
    /\ \E i, j \in UpdateSteps :
          /\ i # j
          /\ trace[i].v = Null
          /\ trace[j].v = Undefined
\* C11: observers see a deduplicated stream, whatever the origin of the
\* changes: no two consecutive change events carry the same value.
C11_NoConsecutiveDuplicates ==
    \A k \in 1..(Len(events) - 1) : events[k].value # events[k + 1].value
\* The step in which the reaction of call id ran, and the step in which it
\* was queued: the call itself when no callback was awaited, the fulfilment
\* of the callback's promise otherwise.
ThenStep(id) == CHOOSE i \in ThenSteps(id) : TRUE
QueueStep(id) ==
    IF calls[id].cb = "resolved"
    THEN CHOOSE i \in Steps : trace[i].id = id /\ trace[i].kind = "resolve"
    ELSE CallStep(id)

\* set(a) and set(b), calls id and jd of a Value with a forwarder, have both
\* completed, and they overlapped: jd was called before the reaction of id
\* had run.
OverlappingSets(id, jd) ==
    /\ valueForwarder # Null
    /\ id < jd
    /\ calls[id].op = "set" /\ calls[id].st = "fulfilled"
    /\ calls[jd].op = "set" /\ calls[jd].st = "fulfilled"
    /\ CallStep(jd) < ThenStep(id)

\* The Updates of two overlapping sets ran in the order in which their
\* forwarder calls resolved.
UpdatesInResolutionOrder(id, jd) ==
    (QueueStep(id) < QueueStep(jd)) <=> (ThenStep(id) < ThenStep(jd))

\* The later of two steps.
Later(i, j) == IF i < j THEN j ELSE i

\* C12, as claimed: for two overlapping sets with a forwarder, the order in
\* which the forwarder calls resolve is the order of their Updates; after
\* both, lastValue is the value of the Update that ran last; and each value
\* that differed from lastValue when its Update ran was emitted as its own
\* change event.
C12_Original ==
    \A id, jd \in CallIds :
        OverlappingSets(id, jd) =>
            /\ UpdatesInResolutionOrder(id, jd)
            /\ LET last == Later(ThenStep(id), ThenStep(jd))
               IN  trace[last].after = trace[last].v
            /\ \A i \in {ThenStep(id), ThenStep(jd)} :
                  Differs(trace[i].v, trace[i].before) =>
                      /\ trace[i].emits = 1
                      /\ events[trace[i].nev].value = trace[i].v

\* C12, amended: the same for present values.  The Update that ran last
\* wins if its value is neither undefined nor null, and leaves lastValue as
\* it was otherwise; each present value that differed from lastValue when
\* its Update ran was emitted as its own change event, and an absent one
\* was not emitted.
C12_LastUpdateWins ==
    \A id, jd \in CallIds :
        OverlappingSets(id, jd) =>
            /\ UpdatesInResolutionOrder(id, jd)
            /\ LET last == Later(ThenStep(id), ThenStep(jd))
               IN  trace[last].after =
                      IF IsAbsent(trace[last].v) THEN trace[last].before
                      ELSE trace[last].v
            /\ \A i \in {ThenStep(id), ThenStep(jd)} :
                  IF ~IsAbsent(trace[i].v) /\ Differs(trace[i].v, trace[i].before)
                  THEN /\ trace[i].emits = 1
                       /\ events[trace[i].nev].value = trace[i].v
                  ELSE trace[i].emits = 0

\* Two overlapping sets of different present values: the forwarder of the
\* second call resolved first, both values were emitted, in that order, and
\* the value of the first call is the one that stays.
C12_Witness ==
    \E id, jd \in CallIds :
        /\ OverlappingSets(id, jd)
        /\ calls[id].cb = "resolved" /\ calls[jd].cb = "resolved"
        /\ QueueStep(jd) < QueueStep(id)
        /\ ThenStep(jd) < ThenStep(id)
        /\ Len(events) = 2
        /\ events[1].value = calls[jd].arg
        /\ events[2].value = calls[id].arg
        /\ lastValue = calls[id].arg
        /\ calls[id].arg # calls[jd].arg

\* Steps taken while a notification was in progress: lastValue had been
\* replaced and emit had not returned.
StepsDuringEmit == {i \in Steps : trace[i].during > 0}

\* Steps that are calls of the Value's methods by the surrounding program.
CallKinds == {"set", "get", "notify"}

SetsWithoutForwarder ==
    {id \in CallIds : calls[id].op = "set" /\ calls[id].cbCalls = 0}

\* The steps taken after set was invoked and before its Update ran.
StepsBeforeUpdate(id) ==
    {i \in Steps : /\ CallStep(id) < i
                   /\ \A j \in ThenSteps(id) : i < j}

\* C14: without a forwarder set(value) performs the Update at once.  The
\* call of set itself leaves lastValue as the Update leaves it, and no other
\* operation runs between the invocation of set and its Update.
C14_SetWithoutForwarderImmediate ==
    \A id \in SetsWithoutForwarder :
        /\ trace[CallStep(id)].after =
              StoredValue(calls[id].arg, trace[CallStep(id)].before)
        /\ StepsBeforeUpdate(id) = {}

\* The invocations of listeners made for event k, in the order they were
\* made.
DeliveriesOf(k) == SelectSeq(delivered, LAMBDA d : d.ev = k)

\* The listeners invoked for event k, in the order of their invocation.
InvokedFor(k) ==
    LET D == DeliveriesOf(k) IN [i \in 1..Len(D) |-> D[i].to]

\* The emit of event k has not returned.
InProgress(k) == \E f \in 1..Len(emitting) : emitting[f].ev = k

\* Event k reaches the observers registered when it was emitted, each once,
\* in registration order: the listeners invoked so far are the first of
\* them, and all of them once emit has returned.
DeliveredInOrder(k) ==
    LET to == events[k].to
        n  == Len(InvokedFor(k))
    IN  /\ n <= Len(to)
        /\ InvokedFor(k) = SubSeq(to, 1, n)
        /\ ~InProgress(k) => n = Len(to)

LastNotified ==
    IF events = <<>> THEN initialValue ELSE events[Len(events)].value

\* C16: lastValue is initialValue while no change event has been emitted,
\* and the value of the most recent change event afterwards; no step that
\* emits no change event changes lastValue.
C16_LastValueIsLastEvent ==
    /\ lastValue = LastNotified
    /\ \A i \in Steps :
          trace[i].emits = 0 => trace[i].after = trace[i].before

\* A change event has replaced the initial value, and a later step that
\* emitted nothing (an absent or unchanged value) has left lastValue alone.
C16_Witness ==
    /\ events # <<>>
    /\ lastValue = events[Len(events)].value
    /\ lastValue # initialValue
    /\ \E i \in UpdateSteps :
          /\ trace[i].emits = 0
          /\ trace[i].nev = Len(events)
          /\ trace[i].nev >= 1
          /\ trace[i].after = lastValue

\* Call id runs the Update procedure when it succeeds: every set, and every
\* get with a requestor.
HasUpdate(id) == calls[id].op = "set" \/ calls[id].cbCalls > 0

\* Call id has completed successfully, after its Update step.
Succeeded(id) ==
    /\ calls[id].st = "fulfilled"
    /\ HasUpdate(id) => ThenSteps(id) # {}

\* Call id has completed with the failure of its callback.
Failed(id) ==
    /\ calls[id].st \in {"rejected", "thrown"}
    /\ calls[id].cbErr \in Errors
    /\ calls[id].err = calls[id].cbErr

\* Call id has been made / has completed.
Invoked(id) == id \in CallIds
Completed(id) == id \in CallIds /\ (Succeeded(id) \/ Failed(id))

\* C17: under fair scheduling, with every callback promise eventually
\* settled, every invoked set and get eventually completes: successfully
\* after its Update step has run, or with the failure of its callback.
C17_EveryCallCompletes ==
    \A id \in 1..MaxCalls : Invoked(id) ~> Completed(id)

\* A set whose forwarder returned a promise has completed after the promise
\* was fulfilled and the Update ran, and a get whose requestor returned a
\* promise has completed with the requestor's failure.
C17_Witness ==
    \E id, jd \in CallIds :
        /\ calls[id].op = "set" /\ calls[id].cb = "resolved"
        /\ Succeeded(id)
        /\ calls[jd].op = "get" /\ calls[jd].cb = "failed"
        /\ Failed(jd)

\* The steps in which the callback's promise of call id was settled.
SettleSteps(id) ==
    {i \in Steps : trace[i].id = id /\ trace[i].kind \in {"resolve", "fail"}}

\* The callback of call id failed.
CallbackFailed(id) == calls[id].cb \in {"failed", "threw"}

\* C18: every set on a Value with a forwarder invokes the forwarder once,
\* with the value of the call, whatever the value; every get on a Value with
\* a requestor invokes the requestor once; a call without a configured
\* callback invokes none.  The callback's result is taken once, and after a
\* failure the call does nothing more.
C18_CallbackInvokedOnce ==
    \A id \in CallIds :
        /\ (calls[id].op = "set" /\ valueForwarder # Null) =>
              (calls[id].cbCalls = 1 /\ calls[id].cbArg = calls[id].arg)
        /\ (calls[id].op = "get" /\ valueRequestor # Null) =>
              calls[id].cbCalls = 1
        /\ (calls[id].op = "set" /\ valueForwarder = Null) =>
              calls[id].cbCalls = 0
        /\ (calls[id].op = "get" /\ valueRequestor = Null) =>
              calls[id].cbCalls = 0
        /\ Cardinality(SettleSteps(id)) <= 1
        /\ Cardinality(ThenSteps(id)) <= 1
        /\ CallbackFailed(id) =>
              /\ ThenSteps(id) = {}
              /\ calls[id].st \in {"rejected", "thrown"}
              /\ \A i \in SettleSteps(id), j \in Steps :
                    trace[j].id = id => j <= i

\* A set of an absent value and a set of the value lastValue already held
\* were both forwarded, once each, with their values; the forwarder failed
\* for the first and was not invoked again.
C18_Witness ==
    \E id, jd \in CallIds :
        /\ calls[id].op = "set" /\ IsAbsent(calls[id].arg)
        /\ calls[id].cbCalls = 1 /\ calls[id].cbArg = calls[id].arg
        /\ calls[id].cb = "failed" /\ calls[id].st = "rejected"
        /\ calls[jd].op = "set" /\ calls[jd].arg = trace[CallStep(jd)].before
        /\ ~IsAbsent(calls[jd].arg)
        /\ calls[jd].cbCalls = 1 /\ calls[jd].cbArg = calls[jd].arg
        /\ CallStep(id) < CallStep(jd)

\* Some call has completed successfully.
SomeSucceeded == \E id \in CallIds : calls[id].st = "fulfilled"

\* C19, as claimed: in front of a backing store and used sequentially, after
\* every completed set or get lastValue equals what the store holds.
C19_Original ==
    (AllDone /\ calls # <<>>) => lastValue = Store

\* C19, amended: after every completed call from the first successful one
\* on, lastValue equals what the store holds, provided the store holds a
\* non-empty value.  Failed calls change neither.
C19_AgreesWithStore ==
    /\ (AllDone /\ SomeSucceeded /\ ~IsAbsent(Store)) => lastValue = Store
    /\ \A id \in CallIds :
          CallbackFailed(id) =>
              /\ NoEffect(id)
              /\ id \notin Written

\* A set has written a new value into the store and committed it, and a
\* later set of another value has failed: lastValue and the store both
\* hold the first value.
C19_Witness ==
    /\ AllDone
    /\ Len(calls) = 2
    /\ calls[1].op = "set" /\ calls[1].st = "fulfilled"
    /\ calls[1].arg # initialValue /\ calls[1].arg # backing
    /\ calls[2].op = "set" /\ CallbackFailed(2)
    /\ calls[2].arg # calls[1].arg
    /\ Store = calls[1].arg
    /\ lastValue = Store
====
